---- MODULE Spec2Model ----
(***************************************************************************)
(* Model of createI18n (src/core/i18n.ts): the locale registry, the        *)
(* merge engine, key resolution with fallback, the load coordinator and    *)
(* the change / missing listener sets.                                     *)
(*                                                                         *)
(* Strings that the code takes apart are sequences of tokens: a key is a   *)
(* sequence over " " (white space), "." and name tokens; a template is a   *)
(* sequence of literal tokens and placeholder tokens such as "{{count}}".  *)
(* A translation value is a tagged node: a leaf string or an object (the   *)
(* code tells a Plural Node from a namespace by the object's keys only).   *)
(***************************************************************************)
EXTENDS Integers, Sequences, FiniteSets, TLC

\* ------------------------------------------------------------------ bounds
MaxLoads == 2
MaxHandles == 2
MaxSwitches == 2

\* ------------------------------------------------------------ value model
Locales == {"en", "fr"}
NoFallback == "<undefined>"
NoLocale == "<none>"

Leaf(s) == [tag |-> "str", val |-> s, kids |-> <<>>]
Obj(f) == [tag |-> "obj", val |-> <<>>, kids |-> f]
NullNode == [tag |-> "null", val |-> <<>>, kids |-> <<>>]
EmptyObj == Obj(<<>>)

IsObject(n) == n.tag = "obj"
IsString(n) == n.tag = "str"
OwnKeys(n) == DOMAIN n.kids

One(k, v) == [x \in {k} |-> v]
Two(k1, v1, k2, v2) == [x \in {k1, k2} |-> IF x = k1 THEN v1 ELSE v2]

FORBIDDEN_KEYS == {"__proto__", "constructor", "prototype"}
pluralKeys == {"zero", "one", "two", "few", "many", "other"}

\* --------------------------------------------------- structural merge engine
RECURSIVE deepClone(_)
deepClone(obj) ==
  Obj([k \in OwnKeys(obj) \ FORBIDDEN_KEYS |->
         IF IsObject(obj.kids[k]) THEN deepClone(obj.kids[k]) ELSE obj.kids[k]])

isPluralTranslations(obj) ==
  /\ IsObject(obj)
  /\ OwnKeys(obj) # {}
  /\ OwnKeys(obj) \subseteq pluralKeys

RECURSIVE deepMerge(_, _)
deepMerge(target, source) ==
  LET copied == [k \in OwnKeys(target) \ FORBIDDEN_KEYS |-> target.kids[k]]
      srcKeys == OwnKeys(source) \ FORBIDDEN_KEYS
  IN Obj([k \in (DOMAIN copied) \cup srcKeys |->
            IF k \in srcKeys
            THEN LET value == source.kids[k]
                 IN IF IsObject(value) /\ ~isPluralTranslations(value)
                    THEN IF k \in DOMAIN copied /\ IsObject(copied[k])
                         THEN deepMerge(copied[k], value)
                         ELSE deepClone(value)
                    ELSE value
            ELSE copied[k]])

\* ----------------------------------------------------------- key handling
RECURSIVE TrimStart(_)
TrimStart(k) == IF k # <<>> /\ Head(k) = " " THEN TrimStart(Tail(k)) ELSE k

RECURSIVE TrimEnd(_)
TrimEnd(k) ==
  IF k # <<>> /\ k[Len(k)] = " " THEN TrimEnd(SubSeq(k, 1, Len(k) - 1)) ELSE k

Trim(k) == TrimEnd(TrimStart(k))

\* key.split('.'): the segments between the dots, each a token sequence
RECURSIVE Split(_)
Split(k) ==
  IF \E i \in 1..Len(k) : k[i] = "."
  THEN LET i == CHOOSE j \in 1..Len(k) :
                  k[j] = "." /\ \A h \in 1..(j - 1) : k[h] # "."
       IN <<SubSeq(k, 1, i - 1)>> \o Split(SubSeq(k, i + 1, Len(k)))
  ELSE <<k>>

\* Object.prototype.hasOwnProperty.call(obj, part); the trees of the model
\* have single-token property names only
HasOwn(obj, part) == Len(part) = 1 /\ part[1] \in OwnKeys(obj)

RECURSIVE WalkPlain(_, _)
WalkPlain(current, parts) ==
  IF parts = <<>> THEN current
  ELSE IF ~IsObject(current) THEN NullNode
  ELSE IF isPluralTranslations(current) THEN NullNode
  ELSE IF HasOwn(current, Head(parts))
       THEN WalkPlain(current.kids[Head(parts)[1]], Tail(parts))
       ELSE NullNode

RECURSIVE WalkAny(_, _)
WalkAny(current, parts) ==
  IF parts = <<>> THEN current
  ELSE IF ~IsObject(current) THEN NullNode
  ELSE IF HasOwn(current, Head(parts))
       THEN WalkAny(current.kids[Head(parts)[1]], Tail(parts))
       ELSE NullNode

lookupKey(reg, locale, key) ==
  IF locale \notin DOMAIN reg THEN NullNode
  ELSE LET current == WalkPlain(reg[locale], Split(key))
       IN IF IsString(current) THEN current ELSE NullNode

\* ------------------------------------------------------------ interpolation
NumParam(n) == [kind |-> "num", num |-> n, str |-> <<>>]
StrParam(s) == [kind |-> "str", num |-> 0, str |-> s]
NullParam == [kind |-> "null", num |-> 0, str |-> <<>>]
Entry(name, v) == [name |-> name, value |-> v]
NoParams == <<>>

HasCount(params) ==
  \E i \in 1..Len(params) : params[i].name = "count" /\ params[i].value.kind = "num"
CountOf(params) ==
  LET i == CHOOSE j \in 1..Len(params) : params[j].name = "count" IN params[i].value.num

\* the placeholder tokens and the identifier each one carries
Placeholders == {"{{count}}", "{{name}}", "{{ name }}"}
Ident(tok) == IF tok = "{{count}}" THEN "count" ELSE "name"
Stringify(v) ==
  IF v.kind = "null" THEN <<>>
  ELSE IF v.kind = "num" THEN <<ToString(v.num)>> ELSE v.str

RECURSIVE ReplaceAll(_, _, _)
ReplaceAll(tpl, name, replacement) ==
  IF tpl = <<>> THEN <<>>
  ELSE (IF Head(tpl) \in Placeholders /\ Ident(Head(tpl)) = name
        THEN replacement ELSE <<Head(tpl)>>) \o ReplaceAll(Tail(tpl), name, replacement)

RECURSIVE interpolate(_, _)
interpolate(template, params) ==
  IF params = <<>> THEN template
  ELSE interpolate(ReplaceAll(template, Head(params).name, Stringify(Head(params).value)),
                   Tail(params))

\* ------------------------------------------------------------ pluralization
Abs(n) == IF n < 0 THEN -n ELSE n

\* new Intl.PluralRules(locale).select(n) for the locales and counts used
PluralRulesSelect(locale, n) ==
  LET a == Abs(n)
  IN IF locale = "ru"
     THEN (IF a % 10 = 1 /\ a % 100 # 11 THEN "one"
           ELSE IF a % 10 \in 2..4 /\ a % 100 \notin 12..14 THEN "few"
           ELSE "many")
     ELSE IF locale = "fr" THEN (IF a \in {0, 1} THEN "one" ELSE "other")
     ELSE (IF a = 1 THEN "one" ELSE "other")

\* the category left to the host categorizer for every count, zero included
getPluralForm_hostOnly(locale, count) == PluralRulesSelect(locale, Abs(count))

getPluralForm(locale, count) ==
  IF count = 0 THEN "zero" ELSE PluralRulesSelect(locale, Abs(count))

\* a Plural Node without the selected slot and without 'other' answering
\* with one of the slots it has
handlePluralization_anySlot(reg, locale, key, params) ==
  IF locale \notin DOMAIN reg THEN NullNode
  ELSE LET current == WalkAny(reg[locale], Split(key))
       IN IF isPluralTranslations(current) /\ HasCount(params)
          THEN LET form == getPluralForm(locale, CountOf(params))
               IN IF form \in OwnKeys(current) THEN current.kids[form]
                  ELSE IF "other" \in OwnKeys(current) THEN current.kids["other"]
                  ELSE current.kids[CHOOSE k \in OwnKeys(current) : TRUE]
          ELSE NullNode

handlePluralization(reg, locale, key, params) ==
  IF locale \notin DOMAIN reg THEN NullNode
  ELSE LET current == WalkAny(reg[locale], Split(key))
       IN IF isPluralTranslations(current) /\ HasCount(params)
          THEN LET form == getPluralForm(locale, CountOf(params))
               IN IF form \in OwnKeys(current) THEN current.kids[form]
                  ELSE IF "other" \in OwnKeys(current) THEN current.kids["other"]
                  ELSE NullNode
          ELSE NullNode

\* ------------------------------------------------------------------- inputs
Tok(s) == <<s>>
T_en == Obj(One("hello", Leaf(Tok("Hello"))))
T_fr == Obj(One("hello", Leaf(Tok("Bonjour"))))
T_nav == Obj(One("nav", Obj(One("home", Leaf(Tok("Home"))))))
\* JSON.parse('{"__proto__": {"polluted": "yes"}, "hello": "Hi"}')
T_protoTop ==
  Obj(Two("__proto__", Obj(One("polluted", Leaf(Tok("yes")))), "hello", Leaf(Tok("Hi"))))
T_ctorNested ==
  Obj(One("nav", Obj(Two("constructor", Leaf(Tok("x")), "home", Leaf(Tok("Start"))))))
\* an object whose keys are all plural categories, with an object in a slot
T_ctorInPlural ==
  Obj(One("items", Obj(One("other", Obj(One("constructor", Leaf(Tok("x"))))))))

T_frNav ==
  Obj(Two("hello", Leaf(Tok("Bonjour")), "nav", Obj(One("home", Leaf(Tok("Accueil"))))))

Callbacks == {"cbA", "cbB"}
\* locale arguments that are strings but blank: locale.trim() === ''
BlankLocales == {"", " "}
validLocale(locale) == locale \notin BlankLocales
ThrowingCallbacks == {"cbB"}
MissingBehaviors == {"key", "empty", "throw"}

\* -------------------------------------------------------------------- state
VARIABLES
  translations,      \* Map locale -> tree (a function on the locales present)
  currentLocale,
  fallbackLocale,
  loadPath,          \* TRUE iff a loader was configured
  changeCallbacks,   \* Set in insertion order: a sequence without repeats
  missingCallbacks,
  missingBehavior,
  loadingPromises,   \* Map locale -> promise (index into loads)
  loadedLocales,
  lastCallbackError,
  loads,             \* the promises loadLocale created, one per loader call
  handles,           \* the unsubscribe closures handed out, oldest first
  switches,          \* the setLocaleAsync calls that reached their await
  snapshot,          \* the tree the caller got from getTranslations
  lastOp             \* the last call made and what its caller observed

vars == <<translations, currentLocale, fallbackLocale, loadPath, changeCallbacks,
          missingCallbacks, missingBehavior, loadingPromises, loadedLocales,
          lastCallbackError, loads, handles, switches, snapshot, lastOp>>

\* shared: the paths at which the caller's tree is the registry's own object
NoSnapshot == [locale |-> NoLocale, tree |-> EmptyObj, shared |-> {}]

OpRec(op, locale, key, params, outcome, value, notified, handle) ==
  [op |-> op, locale |-> locale, key |-> key, params |-> params, outcome |-> outcome,
   value |-> value, notified |-> notified, handle |-> handle, forceReload |-> FALSE,
   consulted |-> <<>>, scope |-> <<>>]

\* createI18n(options)
createI18n(defaultLocale, fallback, initial, loader) ==
  /\ translations = [l \in DOMAIN initial |-> deepClone(initial[l])]
  /\ currentLocale = defaultLocale
  /\ fallbackLocale = fallback
  /\ loadPath = loader
  /\ changeCallbacks = <<>>
  /\ missingCallbacks = <<>>
  /\ missingBehavior = "key"
  /\ loadingPromises = <<>>
  /\ loadedLocales = {}
  /\ lastCallbackError = "null"
  /\ loads = <<>>
  /\ handles = <<>>
  /\ switches = <<>>
  /\ snapshot = NoSnapshot
  /\ lastOp = OpRec("createI18n", defaultLocale, <<>>, <<>>, "ok", <<>>, <<>>, 0)

\* --------------------------------------------------------------- event hub
\* one listener invocation; cb(a1, a2) observes the current locale `seen`
Call(cb, a1, a2, seen) == [cb |-> cb, a1 |-> a1, a2 |-> a2, seen |-> seen]

\* forEach without the try / catch: the first exception ends the loop and
\* reaches the caller
RECURSIVE forEachCallback_noCatch(_, _, _, _)
forEachCallback_noCatch(cbs, a1, a2, seen) ==
  IF cbs = <<>> THEN [calls |-> <<>>, caught |-> "null", escaped |-> FALSE]
  ELSE IF Head(cbs) \in ThrowingCallbacks
  THEN [calls |-> <<[cb |-> Head(cbs), a1 |-> a1, a2 |-> a2, seen |-> seen]>>,
        caught |-> "null", escaped |-> TRUE]
  ELSE LET rest == forEachCallback_noCatch(Tail(cbs), a1, a2, seen)
       IN [calls |-> <<[cb |-> Head(cbs), a1 |-> a1, a2 |-> a2, seen |-> seen]>>
                       \o rest.calls,
           caught |-> "null", escaped |-> rest.escaped]

\* callbacks.forEach(cb => { try { cb(a1, a2) } catch (e) { lastCallbackError = e } })
RECURSIVE forEachCallback(_, _, _, _)
forEachCallback(cbs, a1, a2, seen) ==
  IF cbs = <<>> THEN [calls |-> <<>>, caught |-> "null", escaped |-> FALSE]
  ELSE LET rest == forEachCallback(Tail(cbs), a1, a2, seen)
           here == Call(Head(cbs), a1, a2, seen)
       IN [calls |-> <<here>> \o rest.calls,
           caught |-> IF rest.caught # "null" THEN rest.caught
                      ELSE IF Head(cbs) \in ThrowingCallbacks THEN Head(cbs) ELSE "null",
           escaped |-> rest.escaped]

SetAdd_prepend(seq, x) == IF \E i \in 1..Len(seq) : seq[i] = x THEN seq ELSE <<x>> \o seq
SetAdd(seq, x) == IF \E i \in 1..Len(seq) : seq[i] = x THEN seq ELSE Append(seq, x)
SetDelete(seq, x) == SelectSeq(seq, LAMBDA y : y # x)
Range(seq) == {seq[i] : i \in 1..Len(seq)}

\* ---------------------------------------------------------------- translate
\* plural-then-plain attempt against one locale's tree
Attempt(locale, trimmedKey, params) ==
  LET plural == IF HasCount(params)
                THEN handlePluralization(translations, locale, trimmedKey, params)
                ELSE NullNode
  IN IF plural # NullNode THEN plural ELSE lookupKey(translations, locale, trimmedKey)

TRes(outcome, value, note, consulted) ==
  [outcome |-> outcome, value |-> value, calls |-> note.calls, caught |-> note.caught,
   escaped |-> note.escaped, consulted |-> consulted]
NoNote == [calls |-> <<>>, caught |-> "null", escaped |-> FALSE]

\* resolve with the fallback locale's tree tried before the current one's
resolve_fallbackFirst(trimmedKey, params) ==
  LET inCurrent == Attempt(currentLocale, trimmedKey, params)
      inFallback == IF fallbackLocale # NoFallback
                    THEN Attempt(fallbackLocale, trimmedKey, params) ELSE NullNode
  IN [result |-> IF inFallback # NullNode THEN inFallback ELSE inCurrent,
      foundInCurrentLocale |-> inCurrent # NullNode,
      consulted |-> IF fallbackLocale # NoFallback
                    THEN <<fallbackLocale, currentLocale>> ELSE <<currentLocale>>]

\* the current locale first, the fallback locale only on a miss
resolve(trimmedKey, params) ==
  LET inCurrent == Attempt(currentLocale, trimmedKey, params)
      tryFallback == inCurrent = NullNode /\ fallbackLocale # NoFallback
  IN [result |-> IF tryFallback THEN Attempt(fallbackLocale, trimmedKey, params)
                 ELSE inCurrent,
      foundInCurrentLocale |-> inCurrent # NullNode,
      consulted |-> IF tryFallback THEN <<currentLocale, fallbackLocale>>
                    ELSE <<currentLocale>>]

\* the missing listeners told the locale that supplied the translation
missingNote_reportsFallback(cbs, trimmedKey) ==
  LET reported == IF fallbackLocale # NoFallback THEN fallbackLocale ELSE currentLocale
  IN forEachCallback(cbs, trimmedKey, reported, currentLocale)

\* missingCallbacks.forEach(cb => cb(trimmedKey, currentLocale))
missingNote(cbs, trimmedKey) ==
  forEachCallback(cbs, trimmedKey, currentLocale, currentLocale)

\* translate with `cbs` as the missing listeners
translateWith(cbs, key, params) ==
  LET trimmedKey == Trim(key)
      found == resolve(trimmedKey, params)
      result == found.result
      note == missingNote(cbs, trimmedKey)
  IN IF trimmedKey = <<>> THEN TRes("return", <<>>, NoNote, <<>>)
     ELSE IF result = NullNode
     THEN IF note.escaped THEN TRes("CallbackError", <<>>, note, found.consulted)
          ELSE IF missingBehavior = "empty" THEN TRes("return", <<>>, note, found.consulted)
          ELSE IF missingBehavior = "throw"
               THEN TRes("I18nError", <<"Missing translation: ">> \o trimmedKey, note,
                         found.consulted)
          ELSE TRes("return", trimmedKey, note, found.consulted)
     ELSE LET after == IF ~found.foundInCurrentLocale /\ fallbackLocale # NoFallback
                       THEN note ELSE NoNote
          IN IF after.escaped THEN TRes("CallbackError", <<>>, after, found.consulted)
             \* interpolate calls result.replace: a TypeError unless result is a string
             ELSE IF ~IsString(result) THEN TRes("TypeError", <<>>, after, found.consulted)
             ELSE TRes("return", interpolate(result.val, params), after, found.consulted)

\* translate with missingBehavior 'throw' applied as soon as the current locale
\* misses, before the fallback translation is returned
translate_throwBeforeFallback(key, params) ==
  LET r == translateWith(missingCallbacks, key, params)
  IN IF /\ Trim(key) # <<>>
        /\ ~resolve(Trim(key), params).foundInCurrentLocale
        /\ missingBehavior = "throw"
     THEN [r EXCEPT !.outcome = "I18nError",
                    !.value = <<"Missing translation: ">> \o Trim(key)]
     ELSE r

translate(key, params) == translateWith(missingCallbacks, key, params)

\* i18n.t(key, params)
Translate(key, params) ==
  \E r \in {translate(key, params)} :
     /\ lastOp' = [OpRec("t", currentLocale, key, params, r.outcome, r.value, r.calls, 0)
                     EXCEPT !.consulted = r.consulted]
     /\ lastCallbackError' = IF r.caught # "null" THEN r.caught ELSE lastCallbackError
     /\ UNCHANGED <<translations, currentLocale, fallbackLocale, loadPath, changeCallbacks,
                    missingCallbacks, missingBehavior, loadingPromises, loadedLocales,
                    loads, handles, switches, snapshot>>

\* ------------------------------------------------------------ locale switch
\* the guard with a configured loader taken as a promise of translations
localeUnavailable_unlessLoader(locale) ==
  /\ locale \notin DOMAIN translations
  /\ DOMAIN translations # {}
  /\ fallbackLocale = NoFallback
  /\ ~loadPath

\* !translations.has(locale) && hasSomeTranslations && !fallbackLocale
localeUnavailable(locale) ==
  /\ locale \notin DOMAIN translations
  /\ DOMAIN translations # {}
  /\ fallbackLocale = NoFallback

SetLocale(locale) ==
  IF ~validLocale(locale)
  THEN /\ lastOp' = OpRec("setLocale", locale, <<>>, <<>>, "TypeError",
                          <<"locale cannot be empty">>, <<>>, 0)
       /\ UNCHANGED <<translations, currentLocale, fallbackLocale, loadPath,
                      changeCallbacks, missingCallbacks, missingBehavior, loadingPromises,
                      loadedLocales, lastCallbackError, loads, handles, switches, snapshot>>
  ELSE IF locale = currentLocale
  THEN /\ lastOp' = OpRec("setLocale", locale, <<>>, <<>>, "ok", <<>>, <<>>, 0)
       /\ UNCHANGED <<translations, currentLocale, fallbackLocale, loadPath,
                      changeCallbacks, missingCallbacks, missingBehavior, loadingPromises,
                      loadedLocales, lastCallbackError, loads, handles, switches, snapshot>>
  ELSE IF localeUnavailable(locale)
  THEN /\ lastOp' = OpRec("setLocale", locale, <<>>, <<>>, "Error",
                          <<"No translations available for locale '", locale, "'">>, <<>>, 0)
       /\ UNCHANGED <<translations, currentLocale, fallbackLocale, loadPath,
                      changeCallbacks, missingCallbacks, missingBehavior, loadingPromises,
                      loadedLocales, lastCallbackError, loads, handles, switches, snapshot>>
  ELSE LET prevLocale == currentLocale
           note == forEachCallback(changeCallbacks, locale, prevLocale, locale)
       IN /\ currentLocale' = locale
          /\ lastCallbackError' = IF note.caught # "null" THEN note.caught
                                  ELSE lastCallbackError
          /\ lastOp' = OpRec("setLocale", locale, <<>>, <<>>,
                             IF note.escaped THEN "CallbackError" ELSE "ok",
                             <<prevLocale>>, note.calls, 0)
          /\ UNCHANGED <<translations, fallbackLocale, loadPath, changeCallbacks,
                         missingCallbacks, missingBehavior, loadingPromises,
                         loadedLocales, loads, handles, switches, snapshot>>

\* ------------------------------------------------------ translation management
\* the registry and the loaded markers after i18n.addTranslations(locale, trans)
addTranslations(reg, locale, trans) ==
  IF locale \in DOMAIN reg
  THEN [reg EXCEPT ![locale] = deepMerge(reg[locale], trans)]
  ELSE [l \in DOMAIN reg \cup {locale} |->
          IF l = locale THEN deepClone(trans) ELSE reg[l]]

markOnAdd(reg, marked, locale) ==
  IF locale \in DOMAIN reg THEN marked ELSE marked \cup {locale}

AddTranslations(locale, trans) ==
  /\ translations' = IF validLocale(locale)
                     THEN addTranslations(translations, locale, trans) ELSE translations
  /\ loadedLocales' = IF validLocale(locale)
                      THEN markOnAdd(translations, loadedLocales, locale) ELSE loadedLocales
  /\ lastOp' = IF validLocale(locale)
               THEN OpRec("addTranslations", locale, <<>>, <<>>, "ok", <<>>, <<>>, 0)
               ELSE OpRec("addTranslations", locale, <<>>, <<>>, "TypeError",
                          <<"locale cannot be empty">>, <<>>, 0)
  /\ UNCHANGED <<currentLocale, fallbackLocale, loadPath, changeCallbacks,
                 missingCallbacks, missingBehavior, loadingPromises,
                 lastCallbackError, loads, handles, switches, snapshot>>

SetMissingBehavior(behavior) ==
  /\ missingBehavior' = IF behavior \in MissingBehaviors THEN behavior ELSE missingBehavior
  /\ lastOp' = OpRec("setMissingBehavior", NoLocale, <<>>, <<>>,
                     IF behavior \in MissingBehaviors THEN "ok" ELSE "TypeError",
                     <<behavior>>, <<>>, 0)
  /\ UNCHANGED <<translations, currentLocale, fallbackLocale, loadPath, changeCallbacks,
                 missingCallbacks, loadingPromises, loadedLocales, lastCallbackError,
                 loads, handles, switches, snapshot>>

\* --------------------------------------------------------------- listeners
Handle(kind, cb) == [kind |-> kind, cb |-> cb, called |-> FALSE]

OnChange(callback) ==
  /\ Len(handles) < MaxHandles
  /\ changeCallbacks' = SetAdd(changeCallbacks, callback)
  /\ handles' = Append(handles, Handle("change", callback))
  /\ lastOp' = OpRec("onChange", NoLocale, <<>>, <<>>, "ok", <<>>, <<>>, Len(handles) + 1)
  /\ UNCHANGED <<translations, currentLocale, fallbackLocale, loadPath, missingCallbacks,
                 missingBehavior, loadingPromises, loadedLocales, lastCallbackError, loads, switches, snapshot>>

OnMissing(callback) ==
  /\ Len(handles) < MaxHandles
  /\ missingCallbacks' = SetAdd(missingCallbacks, callback)
  /\ handles' = Append(handles, Handle("missing", callback))
  /\ lastOp' = OpRec("onMissing", NoLocale, <<>>, <<>>, "ok", <<>>, <<>>, Len(handles) + 1)
  /\ UNCHANGED <<translations, currentLocale, fallbackLocale, loadPath, changeCallbacks,
                 missingBehavior, loadingPromises, loadedLocales, lastCallbackError, loads, switches, snapshot>>

\* calling the closure that onChange / onMissing returned
Unsubscribe(h) ==
  /\ h \in 1..Len(handles)
  /\ IF handles[h].kind = "change"
     THEN /\ changeCallbacks' = SetDelete(changeCallbacks, handles[h].cb)
          /\ UNCHANGED missingCallbacks
     ELSE /\ missingCallbacks' = SetDelete(missingCallbacks, handles[h].cb)
          /\ UNCHANGED changeCallbacks
  /\ handles' = [handles EXCEPT ![h].called = TRUE]
  /\ lastOp' = OpRec("unsubscribe", NoLocale, <<>>, <<>>, "ok", <<>>, <<>>, h)
  /\ UNCHANGED <<translations, currentLocale, fallbackLocale, loadPath, missingBehavior,
                 loadingPromises, loadedLocales, lastCallbackError, loads, switches, snapshot>>

\* --------------------------------------------------------- load coordinator
MapSet(m, k, v) == [x \in DOMAIN m \cup {k} |-> IF x = k THEN v ELSE m[x]]
MapDelete(m, k) == [x \in DOMAIN m \ {k} |-> m[x]]

Load(locale, forceReload, status, error) ==
  [locale |-> locale, forceReload |-> forceReload, status |-> status, error |-> error]

\* what the loader's promise settles with
Resolves(data) == [kind |-> "data", data |-> data, error |-> "none"]
ResolvesInvalid(what) == [kind |-> "invalid", data |-> EmptyObj, error |-> what]
Rejects(error) == [kind |-> "reject", data |-> EmptyObj, error |-> error]

\* the finally block of the load: loadingPromises.delete(locale)
finallyDelete(table, locale) == MapDelete(table, locale)

\* i18n.loadLocale(locale, {forceReload}); loaderThrows: loadPath(locale) throws
\* while it is being called instead of returning a promise
LoadLocale(locale, forceReload, loaderThrows) ==
  LET op(outcome, value, handle) ==
        [OpRec("loadLocale", locale, <<>>, <<>>, outcome, value, <<>>, handle)
           EXCEPT !.forceReload = forceReload]
      same == <<translations, currentLocale, fallbackLocale, loadPath, changeCallbacks,
                missingCallbacks, missingBehavior, loadedLocales, lastCallbackError,
                handles, switches, snapshot>>
  IN IF ~loadPath
     THEN /\ lastOp' = op("Error", <<"loadPath not configured">>, 0)
          /\ UNCHANGED <<same, loadingPromises, loads>>
     ELSE IF ~forceReload /\ locale \in DOMAIN loadingPromises
     THEN /\ lastOp' = op("promise", <<>>, loadingPromises[locale])
          /\ UNCHANGED <<same, loadingPromises, loads>>
     ELSE IF ~forceReload /\ locale \in loadedLocales
     THEN /\ lastOp' = op("resolved", <<>>, 0)
          /\ UNCHANGED <<same, loadingPromises, loads>>
     ELSE /\ Len(loads) < MaxLoads
          /\ LET promise == Len(loads) + 1
             IN /\ loads' = Append(loads,
                                   IF loaderThrows
                                   THEN Load(locale, forceReload, "rejected", "NetworkError")
                                   ELSE Load(locale, forceReload, "pending", "none"))
                \* the async body runs up to its first await before the promise
                \* is stored: a throwing loader reaches the finally block first
                /\ loadingPromises' =
                     MapSet(IF loaderThrows THEN finallyDelete(loadingPromises, locale)
                            ELSE loadingPromises, locale, promise)
                /\ lastOp' = op("promise", <<>>, promise)
          /\ UNCHANGED same

\* loadBody with the marker set before the data is validated
loadBody_marksFirst(reg, marked, locale, res) ==
  IF res.kind = "data"
  THEN [reg |-> addTranslations(reg, locale, res.data),
        marked |-> markOnAdd(reg, marked, locale) \cup {locale},
        error |-> "none"]
  ELSE [reg |-> reg, marked |-> marked \cup {locale},
        error |-> IF res.kind = "reject" THEN res.error ELSE "TypeError"]

\* the body of the async function once `await loadPath(locale)` has settled:
\* the registry, the loaded markers and the error the promise rejects with
loadBody(reg, marked, locale, res) ==
  IF res.kind = "reject"
  THEN [reg |-> reg, marked |-> marked, error |-> res.error]
  ELSE IF res.kind = "invalid"
  THEN [reg |-> reg, marked |-> marked, error |-> "TypeError"]
  \* i18n.addTranslations(locale, data) throws for a blank locale
  ELSE IF ~validLocale(locale)
  THEN [reg |-> reg, marked |-> marked, error |-> "TypeError"]
  ELSE [reg |-> addTranslations(reg, locale, res.data),
        marked |-> markOnAdd(reg, marked, locale) \cup {locale},
        error |-> "none"]

\* the loader's promise of load `promise` settles and the async body resumes
LoadSettle(promise, res) ==
  /\ promise \in 1..Len(loads)
  /\ loads[promise].status = "pending"
  /\ LET locale == loads[promise].locale
         after == loadBody(translations, loadedLocales, locale, res)
     IN /\ translations' = after.reg
        /\ loadedLocales' = after.marked
        /\ loads' = [loads EXCEPT ![promise].status =
                                    IF after.error = "none" THEN "resolved" ELSE "rejected",
                                  ![promise].error = after.error]
        /\ loadingPromises' = finallyDelete(loadingPromises, locale)
        /\ lastOp' = OpRec("settle", locale, <<>>, <<>>,
                           IF after.error = "none" THEN "resolved" ELSE "rejected",
                           <<res.kind, res.error>>, <<>>, promise)
  /\ UNCHANGED <<currentLocale, fallbackLocale, loadPath, changeCallbacks,
                 missingCallbacks, missingBehavior, lastCallbackError, handles, switches, snapshot>>

LoaderResults ==
  {Resolves(T_nav), ResolvesInvalid("null"), ResolvesInvalid("array"),
   ResolvesInvalid("string"), Rejects("NetworkError")}

\* ------------------------------------------------- switch with auto-load
\* what i18n.loadLocale(locale, {forceReload}) does to the loads and the
\* in-flight table, and the promise it returns (0: Promise.resolve())
loadLocale(locale, forceReload, loaderThrows) ==
  IF ~forceReload /\ locale \in DOMAIN loadingPromises
  THEN [loads |-> loads, table |-> loadingPromises, handle |-> loadingPromises[locale],
        started |-> FALSE]
  ELSE IF ~forceReload /\ locale \in loadedLocales
  THEN [loads |-> loads, table |-> loadingPromises, handle |-> 0, started |-> FALSE]
  ELSE [loads |-> Append(loads, IF loaderThrows
                                THEN Load(locale, forceReload, "rejected", "NetworkError")
                                ELSE Load(locale, forceReload, "pending", "none")),
        table |-> MapSet(IF loaderThrows THEN finallyDelete(loadingPromises, locale)
                         ELSE loadingPromises, locale, Len(loads) + 1),
        handle |-> Len(loads) + 1, started |-> TRUE]

\* what i18n.setLocale(locale) does: the locale afterwards, the outcome and
\* the change listener calls
\* setLocale committing the new locale before the availability check
setLocale_commitsFirst(locale) ==
  IF ~validLocale(locale)
  THEN [current |-> currentLocale, outcome |-> "TypeError",
        value |-> <<"locale cannot be empty">>, calls |-> <<>>, caught |-> "null"]
  ELSE IF locale = currentLocale
  THEN [current |-> currentLocale, outcome |-> "ok", value |-> <<>>, calls |-> <<>>,
        caught |-> "null"]
  ELSE IF localeUnavailable(locale)
  THEN [current |-> locale, outcome |-> "Error",
        value |-> <<"No translations available for locale '", locale, "'">>,
        calls |-> <<>>, caught |-> "null"]
  ELSE LET note == forEachCallback(changeCallbacks, locale, currentLocale, locale)
       IN [current |-> locale, outcome |-> IF note.escaped THEN "CallbackError" ELSE "ok",
           value |-> <<currentLocale>>, calls |-> note.calls, caught |-> note.caught]

setLocale(locale) ==
  IF ~validLocale(locale)
  THEN [current |-> currentLocale, outcome |-> "TypeError",
        value |-> <<"locale cannot be empty">>, calls |-> <<>>, caught |-> "null"]
  ELSE IF locale = currentLocale
  THEN [current |-> currentLocale, outcome |-> "ok", value |-> <<>>, calls |-> <<>>,
        caught |-> "null"]
  ELSE IF localeUnavailable(locale)
  THEN [current |-> currentLocale, outcome |-> "Error",
        value |-> <<"No translations available for locale '", locale, "'">>,
        calls |-> <<>>, caught |-> "null"]
  ELSE LET note == forEachCallback(changeCallbacks, locale, currentLocale, locale)
       IN [current |-> locale, outcome |-> IF note.escaped THEN "CallbackError" ELSE "ok",
           value |-> <<currentLocale>>, calls |-> note.calls, caught |-> note.caught]

\* setLocaleAsync switching at once, whatever the loaded markers say
needsLoad_never(locale) == FALSE

\* !loadedLocales.has(locale) && loadPath
needsLoad(locale) == locale \notin loadedLocales /\ loadPath

Switch(locale, promise, status) == [locale |-> locale, promise |-> promise, status |-> status]

\* i18n.setLocaleAsync(locale) up to its await, or to its end without one
SetLocaleAsync(locale, loaderThrows) ==
  IF needsLoad(locale)
  THEN LET r == loadLocale(locale, FALSE, loaderThrows)
       IN /\ Len(switches) < MaxSwitches
          /\ r.started => Len(loads) < MaxLoads
          /\ loads' = r.loads
          /\ loadingPromises' = r.table
          /\ switches' = Append(switches, Switch(locale, r.handle, "waiting"))
          /\ lastOp' = OpRec("setLocaleAsync", locale, <<>>, <<>>, "pending", <<>>, <<>>,
                             Len(switches) + 1)
          /\ UNCHANGED <<translations, currentLocale, fallbackLocale, loadPath,
                         changeCallbacks, missingCallbacks, missingBehavior, loadedLocales,
                         lastCallbackError, handles, snapshot>>
  ELSE LET r == setLocale(locale)
       IN /\ currentLocale' = r.current
          /\ lastCallbackError' = IF r.caught # "null" THEN r.caught ELSE lastCallbackError
          /\ lastOp' = OpRec("setLocaleAsync", locale, <<>>, <<>>, r.outcome, r.value,
                             r.calls, 0)
          /\ UNCHANGED <<translations, fallbackLocale, loadPath, changeCallbacks,
                         missingCallbacks, missingBehavior, loadingPromises, loadedLocales,
                         loads, handles, switches, snapshot>>

\* the awaited load promise of setLocaleAsync call w has settled: the call
\* rejects with the load's error or goes on to i18n.setLocale(locale)
SetLocaleAsyncResume(w) ==
  /\ w \in 1..Len(switches)
  /\ switches[w].status = "waiting"
  /\ switches[w].promise # 0 => loads[switches[w].promise].status # "pending"
  /\ LET locale == switches[w].locale
         failed == switches[w].promise # 0 /\ loads[switches[w].promise].status = "rejected"
         r == setLocale(locale)
     IN IF failed
        THEN /\ switches' = [switches EXCEPT ![w].status = "rejected"]
             /\ lastOp' = OpRec("resume", locale, <<>>, <<>>, "rejected",
                                <<loads[switches[w].promise].error>>, <<>>, w)
             /\ UNCHANGED <<currentLocale, lastCallbackError>>
        ELSE /\ switches' = [switches EXCEPT ![w].status =
                               IF r.outcome = "ok" THEN "fulfilled" ELSE "rejected"]
             /\ currentLocale' = r.current
             /\ lastCallbackError' = IF r.caught # "null" THEN r.caught
                                     ELSE lastCallbackError
             /\ lastOp' = OpRec("resume", locale, <<>>, <<>>, r.outcome, r.value, r.calls, w)
  /\ UNCHANGED <<translations, fallbackLocale, loadPath, changeCallbacks, missingCallbacks,
                 missingBehavior, loadingPromises, loadedLocales, loads, handles,
                 snapshot>>

\* ------------------------------------------- the auto-load specification
AsyncResults == {Resolves(T_frNav), Rejects("NetworkError")}

InitAsync ==
  \E loader \in BOOLEAN :
    \E initial \in {<<>>, One("en", T_en), Two("en", T_en, "fr", T_fr)} :
      createI18n("en", NoFallback, initial, loader)

NextAsync ==
  \/ \E l \in Locales, th \in BOOLEAN : SetLocaleAsync(l, th)
  \/ \E w \in 1..MaxSwitches : SetLocaleAsyncResume(w)
  \/ \E p \in 1..MaxLoads, r \in AsyncResults : LoadSettle(p, r)
  \/ \E l \in Locales : SetLocale(l)
  \/ OnChange("cbA")

SpecAsync == InitAsync /\ [][NextAsync]_vars

\* ----------------------------------------------------- the load specification
InitLoad ==
  \E d \in Locales, loader \in BOOLEAN :
    \E initial \in {<<>>, One("en", T_en)} :
      createI18n(d, NoFallback, initial, loader)

NextLoad ==
  \/ \E l \in Locales, f \in BOOLEAN, th \in BOOLEAN : LoadLocale(l, f, th)
  \/ \E p \in 1..MaxLoads, r \in LoaderResults : LoadSettle(p, r)
  \/ \E l \in Locales : AddTranslations(l, T_fr)

SpecLoad == InitLoad /\ [][NextLoad]_vars

\* ------------------------------------------- the listener specifications
SwitchLocales == Locales \cup {"de"}
EventKeys == {<<"hello">>, <<" ", "nav", ".", "home">>, <<"missing">>, <<" ">>}
PluralKeysUsed == {<<"items">>, <<"items", ".", "one">>}
CountParams == {<<Entry("count", NumParam(n))>> : n \in {0, 1, 2}}
T_enItems ==
  Obj(Two("hello", Leaf(Tok("Hello")),
          "items", Obj(Two("one", Leaf(<<"{{count}}", " item">>),
                           "other", Leaf(<<"{{count}}", " items">>)))))
T_frItems ==
  Obj(Two("nav", Obj(One("home", Leaf(Tok("Accueil")))),
          "items", Obj(One("one", Leaf(<<"{{count}}", " article">>)))))

\* locale switching and its change listeners
InitSwitch ==
  \E fb \in {NoFallback, "fr"}, loader \in BOOLEAN :
    \E initial \in {<<>>, One("fr", T_frNav), Two("en", T_en, "fr", T_frNav)} :
      createI18n("en", fb, initial, loader)

NextSwitch ==
  \/ \E cb \in Callbacks : OnChange(cb)
  \/ \E h \in 1..MaxHandles : Unsubscribe(h)
  \/ \E l \in SwitchLocales : SetLocale(l)

SpecSwitch == InitSwitch /\ [][NextSwitch]_vars

\* translation and its missing listeners
InitMissing ==
  \E fb \in {NoFallback, "fr"} :
    \E initial \in {One("fr", T_frItems), Two("en", T_enItems, "fr", T_frItems)} :
      createI18n("en", fb, initial, FALSE)

NextMissing ==
  \/ \E cb \in Callbacks : OnMissing(cb)
  \/ \E h \in 1..MaxHandles : Unsubscribe(h)
  \/ \E l \in Locales : SetLocale(l)
  \/ \E k \in EventKeys : Translate(k, NoParams)
  \/ \E k \in PluralKeysUsed, ps \in CountParams : Translate(k, ps)
  \/ \E b \in MissingBehaviors : SetMissingBehavior(b)

SpecMissing == InitMissing /\ [][NextMissing]_vars

\* both listener sets together, with callbacks that throw
InitEvents ==
  \E fb \in {NoFallback, "fr"} :
    createI18n("en", fb, Two("en", T_en, "fr", T_frNav), FALSE)

NextEvents ==
  \/ \E cb \in Callbacks : OnChange(cb)
  \/ \E cb \in Callbacks : OnMissing(cb)
  \/ \E l \in Locales : SetLocale(l)
  \/ \E k \in EventKeys : Translate(k, NoParams)
  \/ \E b \in MissingBehaviors : SetMissingBehavior(b)

SpecEvents == InitEvents /\ [][NextEvents]_vars

\* the registry fed through construction, addTranslations and loads
StoreTrees == {T_nav, T_protoTop, T_ctorNested, T_ctorInPlural}

InitStore ==
  \E initial \in {<<>>, One("en", T_protoTop), One("en", T_ctorNested)} :
    createI18n("en", NoFallback, initial, TRUE)

NextStore ==
  \/ \E l \in Locales, tree \in StoreTrees : AddTranslations(l, tree)
  \/ \E l \in Locales, f \in BOOLEAN : LoadLocale(l, f, FALSE)
  \/ \E p \in 1..MaxLoads, tree \in StoreTrees : LoadSettle(p, Resolves(tree))

SpecStore == InitStore /\ [][NextStore]_vars

\* ----------------------------------------------------------- read access
\* i18n.hasKey(key, locale): a string found by lookupKey, or any value at the
\* end of a plain walk over own keys
hasKey(key, locale) ==
  LET targetLocale == IF locale = NoLocale THEN currentLocale ELSE locale
  IN IF lookupKey(translations, targetLocale, key) # NullNode THEN TRUE
     ELSE IF targetLocale \notin DOMAIN translations THEN FALSE
     ELSE WalkAny(translations[targetLocale], Split(key)) # NullNode

\* getTranslations handing out the registry's own tree
cloneShares_root(node) == {<<>>}

\* the paths at which deepClone(node) holds the very object that node holds:
\* every object value is rebuilt by the recursive call, strings are immutable
RECURSIVE cloneShares(_)
cloneShares(node) ==
  UNION {{<<k>> \o q : q \in cloneShares(node.kids[k])} :
           k \in {j \in OwnKeys(node) \ FORBIDDEN_KEYS : IsObject(node.kids[j])}}

\* i18n.getTranslations(locale): the tree returned and what it shares
getTranslations(locale) ==
  LET targetLocale == IF locale = NoLocale THEN currentLocale ELSE locale
  IN IF targetLocale \in DOMAIN translations
     THEN [locale |-> targetLocale, tree |-> deepClone(translations[targetLocale]),
           shared |-> cloneShares(translations[targetLocale])]
     ELSE [locale |-> targetLocale, tree |-> EmptyObj, shared |-> {}]

HasKey(key, locale) ==
  /\ lastOp' = OpRec("hasKey", locale, key, <<>>, "return",
                     IF hasKey(key, locale) THEN <<"true">> ELSE <<"false">>, <<>>, 0)
  /\ UNCHANGED <<translations, currentLocale, fallbackLocale, loadPath, changeCallbacks,
                 missingCallbacks, missingBehavior, loadingPromises, loadedLocales,
                 lastCallbackError, loads, handles, switches, snapshot>>

GetTranslations(locale) ==
  /\ snapshot' = getTranslations(locale)
  /\ lastOp' = OpRec("getTranslations", locale, <<>>, <<>>, "return", <<>>, <<>>, 0)
  /\ UNCHANGED <<translations, currentLocale, fallbackLocale, loadPath, changeCallbacks,
                 missingCallbacks, missingBehavior, loadingPromises, loadedLocales,
                 lastCallbackError, loads, handles, switches>>

\* tree with the property at `path` set to v (the parent object exists)
RECURSIVE SetAt(_, _, _)
SetAt(node, path, v) ==
  IF Len(path) = 1
  THEN Obj([k \in OwnKeys(node) \cup {path[1]} |-> IF k = path[1] THEN v ELSE node.kids[k]])
  ELSE Obj([node.kids EXCEPT ![path[1]] = SetAt(@, Tail(path), v)])

RECURSIVE ObjectAt(_, _)
ObjectAt(node, path) ==
  IF ~IsObject(node) THEN FALSE
  ELSE IF path = <<>> THEN TRUE
  ELSE Head(path) \in OwnKeys(node) /\ ObjectAt(node.kids[Head(path)], Tail(path))

IsPrefix(q, path) == Len(q) <= Len(path) /\ SubSeq(path, 1, Len(q)) = q

\* the caller assigns snapshot.a.b = v on the tree getTranslations returned;
\* the registry sees the assignment iff the assigned object is its own
ModifySnapshot(path, v) ==
  LET parent == SubSeq(path, 1, Len(path) - 1)
  IN /\ snapshot.locale # NoLocale
     /\ ObjectAt(snapshot.tree, parent)
     /\ snapshot' = [snapshot EXCEPT !.tree = SetAt(@, path, v)]
     /\ translations' =
          IF \E q \in snapshot.shared : IsPrefix(q, parent)
          THEN [translations EXCEPT ![snapshot.locale] = SetAt(@, path, v)]
          ELSE translations
     /\ lastOp' = OpRec("modifySnapshot", snapshot.locale, <<>>, <<>>, "ok", <<>>, <<>>, 0)
     /\ UNCHANGED <<currentLocale, fallbackLocale, loadPath, changeCallbacks,
                    missingCallbacks, missingBehavior, loadingPromises, loadedLocales,
                    lastCallbackError, loads, handles, switches>>

\* ------------------------------------------------- the read specification
T_shop ==
  Obj(Two("hello", Leaf(Tok("Hello")),
          "shop", Obj(Two("title", Leaf(Tok("Shop")),
                          "items", Obj(Two("one", Leaf(<<"{{count}}", " item">>),
                                           "other", Leaf(<<"{{count}}", " items">>)))))))
T_shopFlat == Obj(One("shop", Leaf(Tok("Boutique"))))
ReadTrees == {T_shop, T_shopFlat}
ReadKeys ==
  {<<"hello">>, <<"shop">>, <<"shop", ".", "title">>, <<"shop", ".", "items">>,
   <<"shop", ".", "items", ".", "one">>, <<"hello", ".", "title">>,
   <<"shop", ".", "missing">>, <<" ", "hello">>}
SnapshotPaths == {<<"shop", "title">>, <<"shop", "items", "one">>}
Changed == Leaf(Tok("changed"))

InitRead ==
  \E d \in Locales :
    \E initial \in {<<>>, One("en", T_shop)} :
      createI18n(d, "en", initial, FALSE)

NextRead ==
  \/ \E l \in Locales, tree \in ReadTrees : AddTranslations(l, tree)
  \/ \E l \in Locales \cup {NoLocale} : GetTranslations(l)
  \/ \E path \in SnapshotPaths : ModifySnapshot(path, Changed)
  \/ \E k \in ReadKeys, l \in {NoLocale, "fr"} : HasKey(k, l)
  \/ \E k \in ReadKeys : Translate(k, NoParams)

SpecRead == InitRead /\ [][NextRead]_vars

\* ------------------------------------------------ the merge specification
\* a namespace where T_shop has a Plural Node and T_shopFlat a string
T_shopLabel ==
  Obj(One("shop", Obj(One("items", Obj(One("label", Leaf(Tok("Items"))))))))
T_shopHours == Obj(One("shop", Obj(One("hours", Leaf(Tok("9-17"))))))
MergeTrees == {T_shop, T_shopFlat, T_shopLabel, T_shopHours, T_en}

InitMerge ==
  \E initial \in {<<>>, One("en", T_shop), One("en", T_shopFlat)} :
    createI18n("en", NoFallback, initial, FALSE)

NextMerge ==
  \/ \E l \in Locales, tree \in MergeTrees : AddTranslations(l, tree)
  \/ \E l \in Locales : GetTranslations(l)

SpecMerge == InitMerge /\ [][NextMerge]_vars

\* ----------------------------------------------- the plural specification
PluralLocales == {"en", "ru"}
PluralCounts == {-1, 0, 1, 2, 5}
T_enZero ==
  Obj(One("items", Obj([k \in {"zero", "one", "other"} |->
                          IF k = "zero" THEN Leaf(<<"No items">>)
                          ELSE IF k = "one" THEN Leaf(<<"{{count}}", " item">>)
                          ELSE Leaf(<<"{{count}}", " items">>)])))
\* a Plural Node without an 'other' slot
T_enGap == Obj(One("items", Obj(One("one", Leaf(<<"{{count}}", " item">>)))))
T_ruItems ==
  Obj(One("items", Obj([k \in {"one", "few", "many", "other"} |->
                          Leaf(<<"{{count}}", " ru-", k>>)])))
T_ruGap ==
  Obj(One("items", Obj([k \in {"one", "few"} |-> Leaf(<<"{{count}}", " ru-", k>>)])))
PluralRegistries ==
  {Two("en", T_enZero, "ru", T_ruItems), Two("en", T_enGap, "ru", T_ruItems),
   Two("en", T_enItems, "ru", T_ruGap)}

InitPlural ==
  \E d \in PluralLocales, fb \in {NoFallback, "ru"}, initial \in PluralRegistries :
    createI18n(d, fb, initial, FALSE)

NextPlural ==
  \/ \E n \in PluralCounts : Translate(<<"items">>, <<Entry("count", NumParam(n))>>)
  \/ Translate(<<"items">>, NoParams)
  \/ \E l \in PluralLocales : SetLocale(l)
  \/ OnMissing("cbA")
  \/ \E b \in MissingBehaviors : SetMissingBehavior(b)

SpecPlural == InitPlural /\ [][NextPlural]_vars

\* --------------------------------------- the interpolation specification
T_templates ==
  Obj([k \in {"greet", "cart", "total"} |->
         IF k = "greet" THEN Leaf(<<"Hi ", "{{name}}", "!">>)
         ELSE IF k = "cart"
         THEN Leaf(<<"{{ name }}", " has ", "{{count}}", " / ", "{{name}}">>)
         ELSE Leaf(<<"Total: ", "{{count}}">>)])
InterpKeys == {<<"greet">>, <<"cart">>, <<"total">>}
ParamValues ==
  {StrParam(<<"Ann">>), StrParam(<<"{{count}}">>), NumParam(3), NullParam}
ParamNames == {"name", "count", "extra"}
\* the own enumerable properties of a params object, in insertion order
ParamObjects ==
  {<<>>} \cup {<<Entry(a, v)>> : a \in ParamNames, v \in ParamValues}
         \cup {<<Entry(a, v), Entry(b, w)>> :
                 a \in {"name"}, b \in {"count"}, v \in ParamValues, w \in ParamValues}
         \cup {<<Entry(b, w), Entry(a, v)>> :
                 a \in {"name"}, b \in {"count"}, v \in ParamValues, w \in ParamValues}

InitInterp == createI18n("en", NoFallback, One("en", T_templates), FALSE)

NextInterp ==
  \/ \E k \in InterpKeys, ps \in ParamObjects : Translate(k, ps)

SpecInterp == InitInterp /\ [][NextInterp]_vars

isLocaleLoaded(locale) == locale \in DOMAIN translations

\* the loader calls made so far for a locale: every load is one call
LoaderCalls(locale) == Cardinality({p \in 1..Len(loads) : loads[p].locale = locale})

PendingLoads(locale) ==
  {p \in 1..Len(loads) : loads[p].locale = locale /\ loads[p].status = "pending"}
PendingPlainLoads(locale) == {p \in PendingLoads(locale) : ~loads[p].forceReload}

\* C1: a loadLocale(x) without forceReload that is issued while a non-forced
\* load of x is pending does not invoke the loader, and its caller receives
\* the handle of that pending load (so all callers share one outcome).
C1_JoinsPendingLoad ==
  [][(/\ lastOp'.op = "loadLocale"
      /\ ~lastOp'.forceReload
      /\ PendingPlainLoads(lastOp'.locale) # {})
     => /\ loads' = loads
        /\ lastOp'.handle \in PendingPlainLoads(lastOp'.locale)]_vars

\* C2: the in-flight table holds pending loads only: once the loader call of a
\* load has settled, by whatever route, the table no longer holds that load,
\* so a later non-forced loadLocale cannot be handed a failed handle.
C2_TableHoldsPendingOnly ==
  \A x \in DOMAIN loadingPromises : loads[loadingPromises[x]].status = "pending"

\* C10: when the loader rejects or resolves with null, an array or a
\* non-object, the promise rejects with the loader's error, respectively a
\* TypeError, and the settling leaves the registry and the loaded markers as
\* they were; a locale without a registry entry still has none.
C10_FailedLoadChangesNothing ==
  [][(lastOp'.op = "settle" /\ lastOp'.value[1] # "data")
     => /\ loads'[lastOp'.handle].status = "rejected"
        /\ loads'[lastOp'.handle].error =
             (IF lastOp'.value[1] = "reject" THEN lastOp'.value[2] ELSE "TypeError")
        /\ translations' = translations
        /\ loadedLocales' = loadedLocales
        /\ (~isLocaleLoaded(lastOp'.locale) => lastOp'.locale \notin DOMAIN translations')]_vars

C10_Witness ==
  /\ lastOp.op = "settle"
  /\ lastOp.value = <<"invalid", "array">>
  /\ loads[lastOp.handle].error = "TypeError"
  /\ ~isLocaleLoaded(lastOp.locale)
  /\ lastOp.locale \notin loadedLocales

\* ------------------------------------------------------------- claims on t
TrimmedKey == Trim(lastOp.key)
InCurrent == Attempt(currentLocale, TrimmedKey, lastOp.params)
InFallback ==
  IF fallbackLocale = NoFallback THEN NullNode
  ELSE Attempt(fallbackLocale, TrimmedKey, lastOp.params)
TCall == lastOp.op = "t" /\ TrimmedKey # <<>>
MissingValues == {<<>>, TrimmedKey, <<"Missing translation: ">> \o TrimmedKey}

\* C3: t returns the current locale's translation whenever the key resolves
\* there (a string is found), without consulting any other tree; the fallback
\* tree is consulted only after a miss in the current one, and when neither
\* supplies the key the result is the missing-translation outcome: no third
\* locale of the registry is ever used.
C3_CurrentThenFallback ==
  TCall =>
    /\ IsString(InCurrent) =>
         /\ lastOp.outcome = "return"
         /\ lastOp.value = interpolate(InCurrent.val, lastOp.params)
    /\ InCurrent # NullNode => lastOp.consulted = <<currentLocale>>
    /\ Range(lastOp.consulted) \subseteq {currentLocale, fallbackLocale}
    /\ (InCurrent = NullNode /\ IsString(InFallback)) =>
         /\ lastOp.outcome = "return"
         /\ lastOp.value = interpolate(InFallback.val, lastOp.params)
    /\ (InCurrent = NullNode /\ InFallback = NullNode) =>
         lastOp.value \in MissingValues

C3_Witness ==
  /\ TCall
  /\ currentLocale = "en" /\ fallbackLocale = "fr"
  /\ IsString(InCurrent) /\ IsString(InFallback) /\ InCurrent # InFallback
  /\ lastOp.value = <<"1", " item">>

\* C4: a call of t with a non-blank key invokes every missing listener exactly
\* once, in order, with (trimmed key, current locale) when the key did not
\* resolve in the current locale, and invokes none when it did.
C4_MissingListeners ==
  TCall =>
    lastOp.notified =
      (IF InCurrent = NullNode
       THEN [i \in 1..Len(missingCallbacks) |->
               Call(missingCallbacks[i], TrimmedKey, currentLocale, currentLocale)]
       ELSE <<>>)

C4_Witness ==
  /\ TCall
  /\ lastOp.key # TrimmedKey
  /\ InCurrent = NullNode
  /\ lastOp.value = <<"Accueil">>
  /\ Len(lastOp.notified) = 2

\* ------------------------------------------------------ claims on setLocale
LiveHandles(kind) ==
  {h \in 1..Len(handles) : handles[h].kind = kind /\ ~handles[h].called}
SetLocaleStep == lastOp'.op = "setLocale"
\* the last call was a setLocale that committed a new locale
Switched == lastOp.op = "setLocale" /\ lastOp.outcome = "ok" /\ lastOp.value # <<>>
Guarded(x) == DOMAIN translations # {} /\ x \notin DOMAIN translations /\ fallbackLocale = NoFallback
RestUnchanged ==
  UNCHANGED <<translations, fallbackLocale, loadPath, changeCallbacks, missingCallbacks,
              missingBehavior, loadingPromises, loadedLocales, loads, handles, switches, snapshot>>

\* C5: setLocale(x) with x other than the current locale, when the guard lets
\* it pass, commits x before the listeners run and invokes every change
\* listener once with (x, previous), in the order they were registered;
\* setLocale(current) changes nothing and invokes no listener.
C5_SwitchNotifies ==
  [][SetLocaleStep =>
       LET x == lastOp'.locale
       IN /\ (x # currentLocale /\ ~Guarded(x)) =>
               /\ currentLocale' = x
               /\ lastOp'.notified =
                    [i \in 1..Len(changeCallbacks) |->
                       Call(changeCallbacks[i], x, currentLocale, x)]
               /\ \A i, j \in 1..Len(changeCallbacks) :
                    i < j => \E g, h \in 1..Len(handles) :
                               /\ g < h
                               /\ handles[g].kind = "change"
                               /\ handles[g].cb = changeCallbacks[i]
                               /\ handles[h].kind = "change"
                               /\ handles[h].cb = changeCallbacks[j]
               /\ RestUnchanged
          /\ x = currentLocale =>
               /\ currentLocale' = currentLocale
               /\ lastOp'.notified = <<>>
               /\ lastOp'.outcome = "ok"
               /\ lastCallbackError' = lastCallbackError
               /\ RestUnchanged]_vars

C5_Witness ==
  /\ lastOp.op = "setLocale"
  /\ Len(lastOp.notified) = 2
  /\ lastOp.notified[1].a1 = currentLocale
  /\ lastOp.notified[1].a2 # currentLocale
  /\ lastOp.notified[1].cb = handles[1].cb

C7_ListenerErrorsIsolated ==
  /\ lastOp.outcome # "CallbackError"
  /\ Switched =>
       /\ currentLocale = lastOp.locale
       /\ [i \in 1..Len(lastOp.notified) |-> lastOp.notified[i].cb] = changeCallbacks
  /\ TCall =>
       /\ lastOp.outcome = translateWith(<<>>, lastOp.key, lastOp.params).outcome
       /\ lastOp.value = translateWith(<<>>, lastOp.key, lastOp.params).value
       /\ lastOp.notified # <<>> =>
            [i \in 1..Len(lastOp.notified) |-> lastOp.notified[i].cb] = missingCallbacks

C7_Witness ==
  /\ TCall
  /\ Len(lastOp.notified) = 2
  /\ lastOp.notified[1].cb \in ThrowingCallbacks
  /\ lastOp.notified[2].cb \notin ThrowingCallbacks
  /\ lastOp.outcome = "return"
  /\ lastOp.value = <<"Accueil">>
  /\ lastCallbackError = lastOp.notified[1].cb

\* C8: a notification reaches exactly the callbacks of the subscriptions whose
\* handle has not been called: calling a handle ends its own subscription and
\* no other, also when another subscription uses the same callback.
C8_UnsubscribeEndsOwnSubscription ==
  Switched =>
    {lastOp.notified[i].cb : i \in 1..Len(lastOp.notified)} =
      {handles[h].cb : h \in LiveHandles("change")}

\* ------------------------------------------------------ claims on the store
RECURSIVE HasForbiddenKey(_)
HasForbiddenKey(node) ==
  /\ IsObject(node)
  /\ \/ OwnKeys(node) \cap FORBIDDEN_KEYS # {}
     \/ \E k \in OwnKeys(node) : HasForbiddenKey(node.kids[k])

\* C9: no node of the registry, at any depth, has an own key named __proto__,
\* constructor or prototype.
C9_NoForbiddenKeyStored ==
  \A l \in DOMAIN translations : ~HasForbiddenKey(translations[l])

\* -------------------------------------------------- claims on repeated loads
\* a load of x has resolved successfully
LoadedBySuccess(x) ==
  \E p \in 1..Len(loads) : loads[p].locale = x /\ loads[p].status = "resolved"

\* C11: once a load of x has resolved successfully, a loadLocale(x) without
\* forceReload does not invoke the loader and its caller gets a resolved
\* promise (or joins a reload that is still pending), and a loadLocale(x) with
\* forceReload invokes the loader exactly once more.
C11_LoadedNeedsNoLoader ==
  [][(lastOp'.op = "loadLocale" /\ LoadedBySuccess(lastOp'.locale))
     => IF lastOp'.forceReload
        THEN /\ Len(loads') = Len(loads) + 1
             /\ loads'[Len(loads')].locale = lastOp'.locale
             /\ SubSeq(loads', 1, Len(loads)) = loads
        ELSE /\ loads' = loads
             /\ \/ lastOp'.outcome = "resolved"
                \/ /\ lastOp'.outcome = "promise"
                   /\ loads[lastOp'.handle].status = "pending"]_vars

C13_LoadedMeansNoLoaderCall ==
  [][(/\ lastOp'.op \in {"loadLocale", "setLocaleAsync"}
      /\ ~lastOp'.forceReload
      /\ isLocaleLoaded(lastOp'.locale))
     => /\ loads' = loads
        /\ lastOp'.op = "setLocaleAsync" => lastOp'.outcome # "pending"]_vars

\* ------------------------------------------------ claims on missing keys
\* C14: when the key resolves in neither the current nor the fallback locale,
\* every missing listener has been called and t then returns the trimmed key
\* ('key'), returns the empty string ('empty') or raises the missing
\* translation error carrying the key ('throw'); when the fallback locale
\* supplies the translation, t returns it in every mode, 'throw' included.
C14_MissingBehaviorApplied ==
  TCall =>
    /\ (InCurrent = NullNode /\ InFallback = NullNode) =>
         /\ lastOp.notified =
              [i \in 1..Len(missingCallbacks) |->
                 Call(missingCallbacks[i], TrimmedKey, currentLocale, currentLocale)]
         /\ missingBehavior = "key" =>
              lastOp.outcome = "return" /\ lastOp.value = TrimmedKey
         /\ missingBehavior = "empty" =>
              lastOp.outcome = "return" /\ lastOp.value = <<>>
         /\ missingBehavior = "throw" =>
              /\ lastOp.outcome = "I18nError"
              /\ lastOp.value = <<"Missing translation: ">> \o TrimmedKey
    /\ (InCurrent = NullNode /\ IsString(InFallback)) =>
         /\ lastOp.outcome = "return"
         /\ lastOp.value = interpolate(InFallback.val, lastOp.params)

C14_WitnessFallback ==
  /\ TCall
  /\ missingBehavior = "throw"
  /\ InCurrent = NullNode
  /\ IsString(InFallback)
  /\ lastOp.outcome = "return"
  /\ lastOp.value = <<"Accueil">>
  /\ lastOp.notified # <<>>

C14_Witness ==
  /\ TCall
  /\ missingBehavior = "throw"
  /\ lastOp.outcome = "I18nError"
  /\ lastOp.value = <<"Missing translation: ", "missing">>
  /\ fallbackLocale # NoFallback
  /\ Len(lastOp.notified) = 2

\* ------------------------------------------------ claims on read access
\* C15: addTranslations(L, X) for a locale L without registry entry and a
\* tree X without forbidden keys makes getTranslations(L) return a tree equal
\* to X; an assignment into a returned snapshot, at any depth, changes
\* nothing of the state that t, hasKey and getTranslations read (the registry,
\* the current and the fallback locale, the missing listeners and behaviour),
\* and a later getTranslations returns what it returned before.
C15_RoundTrip ==
  [][/\ lastOp'.op = "addTranslations"
          => \A L \in Locales \ DOMAIN translations, X \in ReadTrees :
               (~HasForbiddenKey(X) /\ AddTranslations(L, X))
                 => getTranslations(L)'.tree = X
     /\ lastOp'.op = "modifySnapshot"
          => /\ UNCHANGED <<translations, currentLocale, fallbackLocale, missingCallbacks,
                            missingBehavior>>
             /\ \A l \in Locales : getTranslations(l)' = getTranslations(l)]_vars

C15_Witness ==
  /\ lastOp.op = "modifySnapshot"
  /\ snapshot.locale = "fr"
  /\ translations["fr"] = T_shop
  /\ snapshot.tree.kids["shop"].kids["items"].kids["one"] = Changed
  /\ getTranslations("fr").tree = T_shop

\* ------------------------------------------------ claims on merging
\* a nested tree: an object that is not a Plural Node
IsNestedTree(n) == IsObject(n) /\ ~isPluralTranslations(n)

\* the merge as C16 states it: a nested tree of the source is merged key by
\* key only into a nested tree, and replaces a string or a Plural Node by its
\* clone; any other source value replaces what was there
RECURSIVE OverwritingMerge(_, _)
OverwritingMerge(target, source) ==
  LET kept == OwnKeys(target) \ FORBIDDEN_KEYS
      srcKeys == OwnKeys(source) \ FORBIDDEN_KEYS
  IN Obj([k \in kept \cup srcKeys |->
            IF k \notin srcKeys THEN target.kids[k]
            ELSE IF ~IsNestedTree(source.kids[k]) THEN source.kids[k]
            ELSE IF k \in kept /\ IsNestedTree(target.kids[k])
                 THEN OverwritingMerge(target.kids[k], source.kids[k])
                 ELSE deepClone(source.kids[k])])

\* C16: addTranslations(L, X) into an existing locale stores, at every key
\* where X has a nested tree and the locale had a string or a Plural Node, a
\* clone of X's tree alone; trees are merged key by key only when both the
\* existing and the source value are nested trees.
C16_TreeOverwritesPluralNode ==
  [][lastOp'.op = "addTranslations"
       => \A L \in DOMAIN translations, X \in MergeTrees :
            AddTranslations(L, X)
              => translations'[L] = OverwritingMerge(translations[L], X)]_vars

\* ------------------------------------------------ claims on plural forms
CountCall == TCall /\ HasCount(lastOp.params)
\* the value the key leads to in a locale's tree, whatever its kind
NodeIn(locale) ==
  IF locale \in DOMAIN translations
  THEN WalkAny(translations[locale], Split(TrimmedKey)) ELSE NullNode
Category(locale, n) == IF n = 0 THEN "zero" ELSE PluralRulesSelect(locale, Abs(n))
SlotFor(node, category) == IF category \in OwnKeys(node) THEN category ELSE "other"
Shown(template, n) == ReplaceAll(template, "count", <<ToString(n)>>)
PluralGap(locale, n) ==
  /\ isPluralTranslations(NodeIn(locale))
  /\ SlotFor(NodeIn(locale), Category(locale, n)) \notin OwnKeys(NodeIn(locale))

C17_WitnessFallback ==
  /\ CountCall
  /\ CountOf(lastOp.params) = 2
  /\ currentLocale = "en"
  /\ lastOp.value = <<"2", " ru-", "few">>

\* C18: when count is 0 and the Plural Node has no 'zero' slot, t uses the
\* slot of the category the host categorizer selects for 0 in that locale
\* ('many' in Russian) and the 'other' slot only when that slot is absent.
C18_ZeroFallsBackToHostCategory ==
  (CountCall /\ CountOf(lastOp.params) = 0) =>
    LET cur == NodeIn(currentLocale)
        slot == SlotFor(cur, PluralRulesSelect(currentLocale, 0))
    IN (isPluralTranslations(cur) /\ "zero" \notin OwnKeys(cur) /\ slot \in OwnKeys(cur)) =>
         /\ lastOp.outcome = "return"
         /\ lastOp.value = Shown(cur.kids[slot].val, 0)

\* C19: a Plural Node that has neither the selected category's slot nor an
\* 'other' slot counts as a miss in that locale: the fallback locale is tried
\* next, every missing listener is called with (key, current locale), and the
\* result is the fallback's translation or, when there is none, what
\* missingBehavior prescribes.
C19_PluralGapIsMiss ==
  (CountCall /\ PluralGap(currentLocale, CountOf(lastOp.params))) =>
    /\ InCurrent = NullNode
    /\ lastOp.consulted = (IF fallbackLocale # NoFallback
                           THEN <<currentLocale, fallbackLocale>> ELSE <<currentLocale>>)
    /\ lastOp.notified =
         [i \in 1..Len(missingCallbacks) |->
            Call(missingCallbacks[i], TrimmedKey, currentLocale, currentLocale)]
    /\ IF IsString(InFallback)
       THEN /\ lastOp.outcome = "return"
            /\ lastOp.value = interpolate(InFallback.val, lastOp.params)
       ELSE /\ lastOp.outcome = (IF missingBehavior = "throw" THEN "I18nError" ELSE "return")
            /\ lastOp.value = (IF missingBehavior = "key" THEN TrimmedKey
                               ELSE IF missingBehavior = "empty" THEN <<>>
                               ELSE <<"Missing translation: ">> \o TrimmedKey)

C19_Witness ==
  /\ CountCall
  /\ PluralGap(currentLocale, CountOf(lastOp.params))
  /\ currentLocale = "en"
  /\ lastOp.value = <<"5", " ru-", "many">>
  /\ lastOp.notified # <<>>

C19_WitnessMissing ==
  /\ CountCall
  /\ PluralGap(currentLocale, CountOf(lastOp.params))
  /\ PluralGap(fallbackLocale, CountOf(lastOp.params))
  /\ lastOp.outcome = "I18nError"
  /\ lastOp.notified # <<>>

\* C20: hasKey(k, L) is true exactly when the walk of key resolution consumes
\* every segment of k by descending through namespace trees of L's entry,
\* whatever it ends at; it is false when the path leads through a leaf string
\* or through a Plural Node, and the fallback locale is never consulted.
C20_HasKeyFollowsResolutionWalk ==
  lastOp.op = "hasKey" =>
    LET L == IF lastOp.locale = NoLocale THEN currentLocale ELSE lastOp.locale
    IN lastOp.value = <<"true">>
         <=> /\ L \in DOMAIN translations
             /\ WalkPlain(translations[L], Split(lastOp.key)) # NullNode

\* ------------------------------------------------ claims on interpolation
HasParam(params, name) == \E i \in 1..Len(params) : params[i].name = name
ParamValue(params, name) ==
  params[CHOOSE i \in 1..Len(params) : params[i].name = name].value

\* one pass over the template: each placeholder of a supplied parameter gives
\* way to the parameter's text, everything else is copied
RECURSIVE OnePass(_, _)
OnePass(template, params) ==
  IF template = <<>> THEN <<>>
  ELSE (IF Head(template) \in Placeholders /\ HasParam(params, Ident(Head(template)))
        THEN Stringify(ParamValue(params, Ident(Head(template))))
        ELSE <<Head(template)>>) \o OnePass(Tail(template), params)

\* C21: the result of interpolation is the template with every placeholder of
\* a supplied parameter replaced by the parameter's stringified value (null as
\* the empty string) and everything else, text inserted from parameter values
\* included, left as it is, whatever the order of the parameters.
C21_InterpolationIsOnePass ==
  (TCall /\ IsString(InCurrent)) =>
    /\ lastOp.outcome = "return"
    /\ lastOp.value = OnePass(InCurrent.val, lastOp.params)

\* ------------------------------------------- the argument-validation specification
BadBehavior == "loud"

InitValidate ==
  \E loader \in BOOLEAN : createI18n("en", NoFallback, One("en", T_en), loader)

NextValidate ==
  \/ \E l \in {"fr", " "} : SetLocale(l)
  \/ \E l \in {"fr", " "} : AddTranslations(l, T_fr)
  \/ \E l \in {"fr", " "} : LoadLocale(l, FALSE, FALSE)
  \/ \E p \in 1..MaxLoads, r \in AsyncResults : LoadSettle(p, r)
  \/ \E l \in {"fr", " "} : SetLocaleAsync(l, FALSE)
  \/ \E w \in 1..MaxSwitches : SetLocaleAsyncResume(w)
  \/ \E b \in {"empty", BadBehavior} : SetMissingBehavior(b)

SpecValidate == InitValidate /\ [][NextValidate]_vars

\* an operation was called with a blank locale or an unknown behaviour mode
BadCall ==
  \/ /\ lastOp.op \in {"setLocale", "addTranslations", "loadLocale", "setLocaleAsync"}
     /\ lastOp.locale \in BlankLocales
  \/ /\ lastOp.op = "setMissingBehavior"
     /\ lastOp.value \notin {<<b>> : b \in MissingBehaviors}

\* C22: an operation given a bad argument (here a blank locale or an unknown
\* behaviour mode) fails with an error before anything is changed and before
\* the loader is invoked: the registry, the current locale, the listener sets,
\* missingBehavior, the loaded markers, the in-flight table and the loader's
\* call log are the same after the call as before; loadLocale and setLocaleAsync
\* with a blank locale included.
C22_BadArgumentFailsFirst ==
  [][ BadCall' =>
        /\ lastOp'.outcome \in {"TypeError", "Error"}
        /\ UNCHANGED <<translations, currentLocale, changeCallbacks, missingCallbacks,
                       missingBehavior, loadedLocales, loadingPromises, loads>> ]_vars

\* ------------------------------------------------------- the frame specification
getAvailableLocales == DOMAIN translations

GetLocale ==
  /\ lastOp' = OpRec("getLocale", NoLocale, <<>>, <<>>, "return", <<currentLocale>>, <<>>, 0)
  /\ UNCHANGED <<translations, currentLocale, fallbackLocale, loadPath, changeCallbacks,
                 missingCallbacks, missingBehavior, loadingPromises, loadedLocales,
                 lastCallbackError, loads, handles, switches, snapshot>>

GetAvailableLocales ==
  /\ lastOp' = [OpRec("getAvailableLocales", NoLocale, <<>>, <<>>, "return", <<>>, <<>>, 0)
                  EXCEPT !.consulted = getAvailableLocales]
  /\ UNCHANGED <<translations, currentLocale, fallbackLocale, loadPath, changeCallbacks,
                 missingCallbacks, missingBehavior, loadingPromises, loadedLocales,
                 lastCallbackError, loads, handles, switches, snapshot>>

IsLocaleLoaded(locale) ==
  /\ lastOp' = OpRec("isLocaleLoaded", locale, <<>>, <<>>, "return",
                     IF isLocaleLoaded(locale) THEN <<"true">> ELSE <<"false">>, <<>>, 0)
  /\ UNCHANGED <<translations, currentLocale, fallbackLocale, loadPath, changeCallbacks,
                 missingCallbacks, missingBehavior, loadingPromises, loadedLocales,
                 lastCallbackError, loads, handles, switches, snapshot>>

InitFrame ==
  \E fb \in {NoFallback, "en"}, loader \in BOOLEAN :
    createI18n("en", fb, One("en", T_en), loader)

NextFrame ==
  \/ Translate(<<"missing">>, NoParams)
  \/ HasKey(<<"hello">>, NoLocale)
  \/ GetTranslations("en")
  \/ GetLocale
  \/ GetAvailableLocales
  \/ IsLocaleLoaded("fr")
  \/ \E l \in Locales : SetLocale(l)
  \/ SetLocaleAsync("fr", FALSE)
  \/ \E w \in 1..MaxSwitches : SetLocaleAsyncResume(w)
  \/ AddTranslations("fr", T_fr)
  \/ LoadLocale("fr", FALSE, FALSE)
  \/ \E p \in 1..MaxLoads : LoadSettle(p, Resolves(T_frNav))
  \/ OnChange("cbA")

SpecFrame == InitFrame /\ [][NextFrame]_vars

Readers == {"t", "hasKey", "getTranslations", "getLocale", "getAvailableLocales",
            "isLocaleLoaded"}

\* C23: the current locale changes only in a successful setLocale or
\* setLocaleAsync, the fallback locale never changes, the reading operations
\* (t, hasKey, getTranslations, getLocale, getAvailableLocales, isLocaleLoaded)
\* leave the registry, the session state, the loaded markers and the in-flight
\* table as they were, and addTranslations and loadLocale (the call and the
\* completion of its load) neither change the current locale nor notify a
\* change listener.
C23_Frame ==
  [][ /\ currentLocale' # currentLocale =>
           /\ lastOp'.op \in {"setLocale", "setLocaleAsync", "resume"}
           /\ lastOp'.outcome = "ok"
      /\ fallbackLocale' = fallbackLocale
      /\ lastOp'.op \in Readers =>
           UNCHANGED <<translations, currentLocale, fallbackLocale, missingBehavior,
                       changeCallbacks, missingCallbacks, loadedLocales, loadingPromises>>
      /\ lastOp'.op \in {"addTranslations", "loadLocale", "settle"} =>
           /\ currentLocale' = currentLocale
           /\ lastOp'.notified = <<>> ]_vars

\* a change listener is registered, fr is the current locale after a load of
\* it, and a translation has just been asked for
C23_Witness ==
  /\ lastOp.op = "t"
  /\ currentLocale = "fr"
  /\ changeCallbacks # <<>>
  /\ \E p \in 1..Len(loads) : loads[p].status = "resolved"

\* ------------------------------------------- the reserved-word specification
\* a null-prototype object with the own keys constructor, prototype and
\* __proto__ mapped to strings, next to an ordinary key
ReservedText ==
  [constructor |-> Tok("Ctor"), prototype |-> Tok("Proto"), __proto__ |-> Tok("DunderProto"),
   hello |-> Tok("Hi")]
T_reserved == Obj([k \in DOMAIN ReservedText |-> Leaf(ReservedText[k])])
ReservedKeys == {<<k>> : k \in DOMAIN ReservedText}

InitReserved ==
  \E initial \in {One("en", T_reserved), Two("en", T_reserved, "fr", T_reserved)} :
    createI18n("en", NoFallback, initial, FALSE)

NextReserved ==
  \/ \E k \in ReservedKeys : Translate(k, NoParams)
  \/ \E l \in Locales : AddTranslations(l, T_reserved)
  \/ \E l \in Locales : SetLocale(l)
  \/ \E b \in MissingBehaviors : SetMissingBehavior(b)

SpecReserved == InitReserved /\ [][NextReserved]_vars

\* C24: a key literally named constructor, prototype or __proto__ is ordinary
\* data: when the tree supplied for the current locale has such an own key
\* mapped to a string, t on that key returns that string.
C24_ReservedWordsAreData ==
  ( /\ lastOp.op = "t"
    /\ lastOp.key \in ReservedKeys
    /\ lastOp.key[1] \in FORBIDDEN_KEYS
    /\ currentLocale \in DOMAIN translations )
  => /\ lastOp.outcome = "return"
     /\ lastOp.value = ReservedText[lastOp.key[1]]

\* ------------------------------------------------ the namespace specification
\* the argument null or undefined of namespace
NullPrefix == <<"<null>">>

\* fn.namespace(newPrefix) of the translate function created with `prefix`:
\* the prefix of the function it returns ('' and undefined are both <<>>)
namespace(prefix, newPrefix) ==
  LET normalizedPrefix == IF newPrefix = NullPrefix THEN <<>> ELSE newPrefix
      combinedPrefix ==
        IF prefix # <<>>
        THEN (IF normalizedPrefix # <<>> THEN prefix \o <<".">> \o normalizedPrefix
              ELSE prefix)
        ELSE normalizedPrefix
  IN combinedPrefix

\* the key a translate function created with `prefix` hands to translate
fullKey(prefix, key) == IF prefix # <<>> THEN prefix \o <<".">> \o key ELSE key

\* the prefix of i18n.t.namespace(chain[1]).namespace(chain[2])...
RECURSIVE createTranslateFunction(_)
createTranslateFunction(chain) ==
  IF chain = <<>> THEN <<>>
  ELSE namespace(createTranslateFunction(SubSeq(chain, 1, Len(chain) - 1)),
                 chain[Len(chain)])

\* i18n.t.namespace(chain[1])...namespace(chain[n])(key)
TranslateScoped(chain, key) ==
  \E k \in {fullKey(createTranslateFunction(chain), key)} :
   \E r \in {translate(k, NoParams)} :
     /\ lastOp' = [OpRec("t.namespace", currentLocale, key, NoParams, r.outcome, r.value,
                         r.calls, 0)
                     EXCEPT !.consulted = r.consulted, !.scope = chain]
     /\ lastCallbackError' = IF r.caught # "null" THEN r.caught ELSE lastCallbackError
     /\ UNCHANGED <<translations, currentLocale, fallbackLocale, loadPath, changeCallbacks,
                    missingCallbacks, missingBehavior, loadingPromises, loadedLocales,
                    loads, handles, switches, snapshot>>

Prefixes == {NullPrefix, <<>>, <<"shop">>}
Chains == {<<a>> : a \in Prefixes} \cup {<<a, b>> : a \in Prefixes, b \in Prefixes}
ScopeKeys == {<<"hello">>, <<"title">>, <<"shop", ".", "title">>}

InitScope == createI18n("en", NoFallback, One("en", T_shop), FALSE)

NextScope ==
  \/ \E chain \in Chains, k \in ScopeKeys : TranslateScoped(chain, k)
  \/ \E k \in ScopeKeys : Translate(k, NoParams)
  \/ \E b \in MissingBehaviors : SetMissingBehavior(b)

SpecScope == InitScope /\ [][NextScope]_vars

\* C25: namespace(null) or namespace(undefined) called on an already scoped
\* translate function gives a function at the root: it translates every key k
\* exactly as the unscoped t(k) does.
C25_NamespaceNullResets ==
  ( /\ lastOp.op = "t.namespace"
    /\ Len(lastOp.scope) = 2
    /\ lastOp.scope[1] \notin {NullPrefix, <<>>}
    /\ lastOp.scope[2] = NullPrefix )
  => /\ lastOp.outcome = translate(lastOp.key, NoParams).outcome
     /\ lastOp.value = translate(lastOp.key, NoParams).value

\* C26: while at least one load of locale x is pending, the in-flight table
\* holds an entry for x (so a non-forced loadLocale(x) joins a load instead of
\* invoking the loader), also after a forceReload load overlapped an earlier
\* load of x and one of the two has settled.
C26_PendingLoadHasEntry ==
  \A x \in Locales : PendingLoads(x) # {} => x \in DOMAIN loadingPromises

\* C27: when the last of several suspended setLocaleAsync calls completes (its
\* load has just settled) and all of them have succeeded, the loader was
\* invoked at most once for each target locale and the current locale is the
\* target of the call that was issued last, whatever order the loads completed
\* in.
C27_LastIssuedSwitchWins ==
  [][ ( /\ lastOp'.op = "resume"
        /\ lastOp.op = "settle"
        /\ lastOp.handle = switches[lastOp'.handle].promise
        /\ \A v \in 1..Len(switches') : switches'[v].status = "fulfilled" )
      => /\ \A v \in 1..Len(switches) : LoaderCalls(switches[v].locale) <= 1
         /\ currentLocale' = switches[Len(switches)].locale ]_vars

\* ------------------------------------------- the supplied-data specification
\* the paths at which deepMerge(target, source) holds the very object that
\* source holds: a plural-shaped object is assigned as it is, any other object
\* is merged or cloned into a new one
RECURSIVE mergeShares(_, _)
mergeShares(target, source) ==
  UNION {LET value == source.kids[k]
         IN IF ~IsObject(value) THEN {}
            ELSE IF isPluralTranslations(value) THEN {<<k>>}
            ELSE IF k \in OwnKeys(target) \ FORBIDDEN_KEYS /\ IsObject(target.kids[k])
                 THEN {<<k>> \o q : q \in mergeShares(target.kids[k], value)}
                 ELSE {<<k>> \o q : q \in cloneShares(value)}
         : k \in OwnKeys(source) \ FORBIDDEN_KEYS}

\* i18n.addTranslations(locale, trans) by a caller that keeps its reference to
\* trans: snapshot is that object and the paths at which the registry holds it
AddTranslationsHeld(locale, trans) ==
  /\ translations' = addTranslations(translations, locale, trans)
  /\ loadedLocales' = markOnAdd(translations, loadedLocales, locale)
  /\ snapshot' = [locale |-> locale, tree |-> trans,
                  shared |-> IF locale \in DOMAIN translations
                             THEN mergeShares(translations[locale], trans)
                             ELSE cloneShares(trans)]
  /\ lastOp' = OpRec("addTranslations", locale, <<>>, <<>>, "ok", <<>>, <<>>, 0)
  /\ UNCHANGED <<currentLocale, fallbackLocale, loadPath, changeCallbacks,
                 missingCallbacks, missingBehavior, loadingPromises, lastCallbackError,
                 loads, handles, switches>>

T_items ==
  Obj(One("items", Obj(Two("one", Leaf(<<"{{count}}", " item">>),
                           "other", Leaf(<<"{{count}}", " items">>)))))
SupplyTrees == {T_shop, T_items, T_shopFlat}
SupplyPaths == {<<"hello">>, <<"shop", "title">>, <<"shop", "items", "one">>,
                <<"items", "one">>}
SupplyKeys == {<<"shop", ".", "items">>, <<"items">>, <<"shop", ".", "title">>}

InitSupply ==
  \E initial \in {<<>>, One("en", T_shop)} : createI18n("en", NoFallback, initial, FALSE)

NextSupply ==
  \/ \E l \in Locales, tree \in SupplyTrees : AddTranslationsHeld(l, tree)
  \/ \E path \in SupplyPaths : ModifySnapshot(path, Changed)
  \/ \E k \in SupplyKeys : Translate(k, <<Entry("count", NumParam(1))>>)

SpecSupply == InitSupply /\ [][NextSupply]_vars

\* C28: the registry shares no mutable structure with the data a caller
\* supplied: an assignment the caller makes, at any depth, in the object it
\* passed to addTranslations (a Plural Node object included) leaves the
\* registry, and so what t, hasKey and getTranslations return, as it was.
C28_SuppliedDataIsCopied ==
  [][ lastOp'.op = "modifySnapshot"
      => /\ translations' = translations
         /\ \A l \in Locales : getTranslations(l).tree' = getTranslations(l).tree ]_vars

\* ------------------------------------------- the re-entrant listener specification
\* the change listener (n) => { if (n !== 'fr') i18n.setLocale('fr') }
ReentrantCallback == "cbR"
PinLocale == "fr"
ChainLocales == {"en", "de", "fr"}

\* changeCallbacks.forEach of setLocale when a listener may call i18n.setLocale:
\* the nested call commits and runs its own forEach over all listeners before
\* the outer forEach goes on with its next listener; `cur` is currentLocale
RECURSIVE forEachReentrant(_, _, _, _, _)
forEachReentrant(cbs, all, a1, a2, cur) ==
  IF cbs = <<>> THEN [calls |-> <<>>, caught |-> "null", current |-> cur]
  ELSE LET here == Call(Head(cbs), a1, a2, cur)
           none == [calls |-> <<>>, caught |-> "null", current |-> cur]
           nested == IF /\ Head(cbs) = ReentrantCallback
                        /\ a1 # PinLocale
                        /\ cur # PinLocale
                        /\ ~localeUnavailable(PinLocale)
                     THEN forEachReentrant(all, all, PinLocale, cur, PinLocale)
                     ELSE none
           rest == forEachReentrant(Tail(cbs), all, a1, a2, nested.current)
       IN [calls |-> <<here>> \o nested.calls \o rest.calls,
           caught |-> IF rest.caught # "null" THEN rest.caught
                      ELSE IF nested.caught # "null" THEN nested.caught
                      ELSE IF Head(cbs) \in ThrowingCallbacks THEN Head(cbs) ELSE "null",
           current |-> rest.current]

\* i18n.setLocale(locale) with listeners that may call i18n.setLocale
SetLocaleReentrant(locale) ==
  IF ~validLocale(locale) \/ locale = currentLocale \/ localeUnavailable(locale)
  THEN SetLocale(locale)
  ELSE LET prevLocale == currentLocale
           note == forEachReentrant(changeCallbacks, changeCallbacks, locale, prevLocale,
                                    locale)
       IN /\ currentLocale' = note.current
          /\ lastCallbackError' = IF note.caught # "null" THEN note.caught
                                  ELSE lastCallbackError
          /\ lastOp' = OpRec("setLocale", locale, <<>>, <<>>, "ok", <<prevLocale>>,
                             note.calls, 0)
          /\ UNCHANGED <<translations, fallbackLocale, loadPath, changeCallbacks,
                         missingCallbacks, missingBehavior, loadingPromises,
                         loadedLocales, loads, handles, switches, snapshot>>

InitReentrant ==
  \E fb \in {NoFallback, "en"}, initial \in {<<>>, One("en", T_en)} :
    createI18n("en", fb, initial, FALSE)

NextReentrant ==
  \/ \E cb \in {"cbA", "cbB", ReentrantCallback} : OnChange(cb)
  \/ \E l \in ChainLocales : SetLocaleReentrant(l)

SpecReentrant == InitReentrant /\ [][NextReentrant]_vars

\* the (new, previous) pairs one listener received, in the order of the calls
Received(cb, calls) == SelectSeq(calls, LAMBDA c : c.cb = cb)
IsChain(s) == \A i \in 2..Len(s) : s[i].a2 = s[i - 1].a1

\* C29: every change listener observes the locale switches in the order they
\* were committed: the (new, previous) pairs it receives form a chain, each
\* previous being the new of the pair received before it, also when a listener
\* calls setLocale during a notification.
C29_ListenersSeeCommitOrder ==
  lastOp.op = "setLocale"
    => \A cb \in Range(changeCallbacks) : IsChain(Received(cb, lastOp.notified))

\* ------------------------------------------------- the root-tree specification
\* locale trees whose top-level keys are plural category names, all or some
T_rootPlural == Obj(Two("one", Leaf(Tok("One")), "other", Leaf(Tok("Other"))))
T_rootMixed == Obj(Two("one", Leaf(Tok("One")), "hello", Leaf(Tok("Hello"))))
RootTrees == {T_rootPlural, T_rootMixed}
RootKeys == {<<"one">>, <<"other">>, <<"hello">>}

InitRoot ==
  \E initial \in {<<>>} \cup {One("en", tree) : tree \in RootTrees} :
    createI18n("en", NoFallback, initial, FALSE)

NextRoot ==
  \/ \E k \in RootKeys : Translate(k, NoParams)
  \/ \E l \in Locales, tree \in RootTrees : AddTranslations(l, tree)
  \/ \E l \in Locales : SetLocale(l)
  \/ \E b \in MissingBehaviors : SetMissingBehavior(b)

SpecRoot == InitRoot /\ [][NextRoot]_vars

\* C30: the root tree of a locale is a namespace: for every top-level key k of
\* the current locale's tree that is mapped to a string s, t(k) returns s, also
\* when all top-level keys of that tree are plural category names.
C30_RootIsNamespace ==
  ( /\ lastOp.op = "t"
    /\ lastOp.key \in RootKeys
    /\ currentLocale \in DOMAIN translations
    /\ lastOp.key[1] \in OwnKeys(translations[currentLocale])
    /\ IsString(translations[currentLocale].kids[lastOp.key[1]]) )
  => /\ lastOp.outcome = "return"
     /\ lastOp.value = translations[currentLocale].kids[lastOp.key[1]].val

====
